---- MODULE Spec2Model ----
(***************************************************************************)
(* A model of rasterstats.main.zonal_stats (src/src/rasterstats/main.py).  *)
(*                                                                         *)
(* Encoding of Python values:                                              *)
(*   - an optional value (None or x) is a sequence, <<>> or <<x>>;         *)
(*   - a 2-D numpy array is a sequence of rows, each a sequence of cells;  *)
(*     rasters hold integers (an integer dtype);                           *)
(*   - a stat value is a record [t, num, den]: None, an int, a float kept  *)
(*     as the exact fraction num/den, or the square root of num/den (std); *)
(*   - the feature_stats dict is a record: s holds the string keys, hist   *)
(*     the numeric keys (categorical pixel values), rout the three         *)
(*     mini_raster* keys;                                                  *)
(*   - a geometry is [type, parts], each part an axis-aligned rectangle    *)
(*     <<minx, miny, maxx, maxy>>; a point is the degenerate rectangle.    *)
(***************************************************************************)
EXTENDS Integers, Sequences, FiniteSets, TLC

\* The longest feature sequence the vector source yields.
MaxFeatures == 2

-----------------------------------------------------------------------------
(* Values *)

NoneVal == [t |-> "None", num |-> 0, den |-> 1]
IntVal(n) == [t |-> "int", num |-> n, den |-> 1]

Abs(x) == IF x < 0 THEN -x ELSE x

RECURSIVE GCD(_, _)
GCD(a, b) == IF b = 0 THEN a ELSE GCD(b, a % b)

\* float(num/den), den > 0, kept exact and in lowest terms.
FloatVal(num, den) ==
    LET g == GCD(Abs(num), den)
    IN  [t |-> "float", num |-> num \div g, den |-> den \div g]

\* sqrt(num/den), num >= 0, den > 0.
SqrtVal(num, den) ==
    LET g == GCD(num, den)
    IN  [t |-> "sqrt", num |-> num \div g, den |-> den \div g]

\* d[k] = v on a dict.
Put(d, k, v) == [x \in (DOMAIN d) \cup {k} |-> IF x = k THEN v ELSE d[x]]

EmptyDict == [x \in {} |-> NoneVal]

Range(q) == {q[i] : i \in DOMAIN q}

SetMin(S) == CHOOSE x \in S : \A y \in S : x <= y
SetMax(S) == CHOOSE x \in S : \A y \in S : x >= y

FloorDiv(a, b) == a \div b
CeilDiv(a, b) == -((-a) \div b)

-----------------------------------------------------------------------------
(* Arrays *)

Rows(arr) == Len(arr)
Cols(arr) == IF Len(arr) = 0 THEN 0 ELSE Len(arr[1])

\* arr[ya:yb, xa:xb]
Slice(arr, ya, yb, xa, xb) ==
    [r \in 1..(yb - ya) |-> [c \in 1..(xb - xa) |-> arr[ya + r][xa + c]]]

\* The values of the cells that are not masked, in row-major order.
RECURSIVE CompressedUpTo(_, _, _)
CompressedUpTo(data, mask, k) ==
    IF k = 0 THEN <<>>
    ELSE LET w == Cols(data)
             r == ((k - 1) \div w) + 1
             c == ((k - 1) % w) + 1
             rest == CompressedUpTo(data, mask, k - 1)
         IN  IF mask[r][c] THEN rest ELSE Append(rest, data[r][c])

compressed(m) == CompressedUpTo(m.data, m.mask, Rows(m.data) * Cols(m.data))

RECURSIVE SeqSum(_)
SeqSum(q) == IF q = <<>> THEN 0 ELSE q[Len(q)] + SeqSum(SubSeq(q, 1, Len(q) - 1))

\* The k-th smallest element (k from 1) of a non-empty sequence.
Kth(q, k) ==
    CHOOSE v \in Range(q) :
        /\ Cardinality({i \in DOMAIN q : q[i] < v}) < k
        /\ Cardinality({i \in DOMAIN q : q[i] <= v}) >= k

\* np.unique(values, return_counts=True) zipped into a dict.
unique_counts(q) ==
    [k \in Range(q) |-> Cardinality({i \in DOMAIN q : q[i] = k})]

-----------------------------------------------------------------------------
(* Statistic names (utils.py) *)

DEFAULT_STATS == <<"count", "min", "max", "mean">>

VALID_STATS ==
    DEFAULT_STATS \o
    <<"sum", "std", "median", "majority", "minority", "unique", "range", "nodata">>

\* The percentile_<q> names the model knows, with the q each parses to.
PercentileQ == ("percentile_50" :> 50) @@ ("percentile_25" :> 25)

is_percentile(s) == s \in DOMAIN PercentileQ
get_percentile(s) == PercentileQ[s]

stats_valid(stats) ==
    \A k \in DOMAIN stats : is_percentile(stats[k]) \/ stats[k] \in Range(VALID_STATS)

\* check_stats: the requested names (an empty request is the default set,
\* or no stats at all in categorical mode) and whether the histogram is needed.
check_stats(stats, categorical) ==
    LET resolved == IF stats = <<>>
                    THEN (IF categorical THEN <<>> ELSE DEFAULT_STATS)
                    ELSE stats
    IN  [ok |-> stats_valid(resolved),
         stats |-> resolved,
         run_count |-> categorical
                       \/ Range(resolved) \cap {"majority", "minority", "unique", "nodata"} # {}]

\* key_assoc_val(d, func): the first key, in the histogram's (ascending) key
\* order, whose count is func of the counts. pick is "max" or "min".
key_assoc_val(d, pick) ==
    LET counts == {d[k] : k \in DOMAIN d}
        target == IF pick = "max" THEN SetMax(counts) ELSE SetMin(counts)
    IN  SetMin({k \in DOMAIN d : d[k] = target})

-----------------------------------------------------------------------------
(* GeoTransform math and windows (utils.py) *)

\* gt = <<originX, pixelWidth, 0, originY, 0, pixelHeight>>, pixelHeight < 0.
\* rshape = <<rows, cols>>.
raster_extent_as_bounds(gt, rshape) ==
    << gt[1], gt[4] + rshape[1] * gt[6], gt[1] + rshape[2] * gt[2], gt[4] >>

Clip(x, lo, hi) == IF x < lo THEN lo ELSE IF x > hi THEN hi ELSE x

\* <<xOffset, yOffset, width, height>> of bbox = <<minx, miny, maxx, maxy>>,
\* clipped to the raster.
bbox_to_pixel_offsets(gt, bbox, rshape) ==
    LET col1 == Clip(FloorDiv(bbox[1] - gt[1], gt[2]), 0, rshape[2])
        col2 == Clip(CeilDiv(bbox[3] - gt[1], gt[2]), 0, rshape[2])
        row1 == Clip(FloorDiv(gt[4] - bbox[4], -gt[6]), 0, rshape[1])
        row2 == Clip(CeilDiv(gt[4] - bbox[2], -gt[6]), 0, rshape[1])
    IN  << col1, row1, col2 - col1, row2 - row1 >>

\* <<<<row_start, row_stop>>, <<col_start, col_stop>>>>
pixel_offsets_to_window(offsets) ==
    << <<offsets[2], offsets[2] + offsets[4]>>, <<offsets[1], offsets[1] + offsets[3]>> >>

\* src.read(band_num, window=window, masked=False): a fresh array.
read(data, window) ==
    Slice(data, window[1][1], window[1][2], window[2][1], window[2][2])

-----------------------------------------------------------------------------
(* Geometries (shapely) *)

bounds(geom) ==
    << SetMin({geom.parts[k][1] : k \in DOMAIN geom.parts}),
       SetMin({geom.parts[k][2] : k \in DOMAIN geom.parts}),
       SetMax({geom.parts[k][3] : k \in DOMAIN geom.parts}),
       SetMax({geom.parts[k][4] : k \in DOMAIN geom.parts}) >>

\* pt.buffer(b).bounds
buffer_bounds(pt, b) == << pt[1] - b, pt[2] - b, pt[3] + b, pt[4] + b >>

\* rasterize_geom(geom, src_offset, new_gt, all_touched): the inclusion grid
\* of the window. A cell is in when its centre lies inside a part of the
\* geometry, or, under all_touched, when it overlaps a part.
cell_in(part, gt, r, c, all_touched) ==
    LET x0 == gt[1] + (c - 1) * gt[2]
        x1 == x0 + gt[2]
        ytop == gt[4] + (r - 1) * gt[6]
        ybot == ytop + gt[6]
    IN  IF all_touched
        THEN /\ part[1] < x1 /\ x0 < part[3]
             /\ part[2] < ytop /\ ybot < part[4]
        ELSE /\ 2 * part[1] < x0 + x1 /\ x0 + x1 < 2 * part[3]
             /\ 2 * part[2] < ytop + ybot /\ ytop + ybot < 2 * part[4]

rasterize_geom(geom, src_offset, new_gt, all_touched) ==
    [r \in 1..src_offset[4] |->
        [c \in 1..src_offset[3] |->
            \E k \in DOMAIN geom.parts : cell_in(geom.parts[k], new_gt, r, c, all_touched)]]

-----------------------------------------------------------------------------
(* The body of the feature loop of zonal_stats (main.py) *)

\* Mutant of buff: half the pixel height instead of half the pixel width.
buff_from_height(rgt) == Abs(rgt[6]) \div 2

\* buff = rgt[1] / 2.0 (pixel widths of the model are even).
buff(rgt) == rgt[2] \div 2

\* Point and MultiPoint become boxes; every other geometry is kept.
normalize(geom, rgt) ==
    IF geom.type = "MultiPoint"
    THEN [type |-> "MultiPolygon",
          parts |-> [k \in DOMAIN geom.parts |-> buffer_bounds(geom.parts[k], buff(rgt))]]
    ELSE IF geom.type = "Point"
    THEN [type |-> "Polygon", parts |-> << buffer_bounds(geom.parts[1], buff(rgt)) >>]
    ELSE geom

new_gt_of(rgt, src_offset) ==
    << rgt[1] + src_offset[1] * rgt[2], rgt[2], 0,
       rgt[4] + src_offset[2] * rgt[6], 0, rgt[6] >>

off_raster(src_offset) == src_offset[3] <= 0 \/ src_offset[4] <= 0

\* src_array == nodata_value, cell by cell (all False when nodata_value is None).
is_nodata(v, nodata_value) == nodata_value # <<>> /\ v = nodata_value[1]

\* np.ma.MaskedArray(src_array, mask=logical_or(src_array == nodata_value,
\*                                              logical_not(rv_array)))
masked_array(src_array, nodata_value, rv_array) ==
    [data |-> src_array,
     mask |-> [r \in DOMAIN src_array |->
                 [c \in DOMAIN src_array[r] |->
                     is_nodata(src_array[r][c], nodata_value) \/ ~rv_array[r][c]]]]

\* dict([(s, None) for s in stats])
none_stats(stats) == [k \in Range(stats) |-> NoneVal]

\* The feature lies off the raster.
off_raster_stats(stats) ==
    [s |-> none_stats(stats), hist |-> [k \in {} |-> 0], rout |-> <<>>]

\* Mutant of empty_stats: count is not special-cased.
empty_stats_all_none(stats) ==
    [s |-> [k \in Range(stats) |-> NoneVal], hist |-> [k \in {} |-> 0], rout |-> <<>>]

\* No cell survives the mask.
empty_stats(stats) ==
    [s |-> [k \in Range(stats) |-> IF k = "count" THEN IntVal(0) ELSE NoneVal],
     hist |-> [k \in {} |-> 0], rout |-> <<>>]

\* np.median of the surviving values.
median(v) ==
    LET n == Len(v)
    IN  IF n % 2 = 1 THEN FloatVal(Kth(v, (n + 1) \div 2), 1)
        ELSE FloatVal(Kth(v, n \div 2) + Kth(v, (n \div 2) + 1), 2)

\* np.percentile(v, q), linear interpolation between the two nearest ranks.
percentile(v, q) ==
    LET pos == q * (Len(v) - 1)
        lo == (pos \div 100) + 1
        fr == pos % 100
        hi == IF fr = 0 THEN lo ELSE lo + 1
    IN  FloatVal(100 * Kth(v, lo) + fr * (Kth(v, hi) - Kth(v, lo)), 100)

\* masked.std()
std(v) ==
    LET n == Len(v)
        sq == [k \in DOMAIN v |-> v[k] * v[k]]
    IN  SqrtVal(n * SeqSum(sq) - SeqSum(v) * SeqSum(v), n * n)

\* remap_categories(category_map, pixel_count): the labelled counts go under
\* their (string) labels, the unmapped values keep their numeric key.
remap_s(category_map, pixel_count) ==
    LET cm == category_map[1]
        mapped == (DOMAIN pixel_count) \cap (DOMAIN cm)
    IN  [l \in {cm[k] : k \in mapped} |->
            IntVal(pixel_count[CHOOSE k \in mapped : cm[k] = l])]

remap_hist(category_map, pixel_count) ==
    [k \in (DOMAIN pixel_count) \ (DOMAIN category_map[1]) |-> pixel_count[k]]

\* One requested stat over the surviving values v (non-empty).
stat_value(name, v, pixel_count) ==
    CASE name = "min" -> FloatVal(SetMin(Range(v)), 1)
      [] name = "max" -> FloatVal(SetMax(Range(v)), 1)
      [] name = "mean" -> FloatVal(SeqSum(v), Len(v))
      [] name = "count" -> IntVal(Len(v))
      [] name = "sum" -> FloatVal(SeqSum(v), 1)
      [] name = "std" -> std(v)
      [] name = "median" -> median(v)
      [] name = "majority" -> FloatVal(key_assoc_val(pixel_count, "max"), 1)
      [] name = "minority" -> FloatVal(key_assoc_val(pixel_count, "min"), 1)
      [] name = "unique" -> IntVal(Cardinality(DOMAIN pixel_count))
      [] name = "range" -> FloatVal(SetMax(Range(v)) - SetMin(Range(v)), 1)
      [] is_percentile(name) -> percentile(v, get_percentile(name))

\* Some cell survives: the histogram in categorical mode, then every
\* requested stat.
reduce_stats(masked, stats, categorical, category_map) ==
    LET v == compressed(masked)
        pixel_count == unique_counts(v)
        base == IF categorical /\ category_map # <<>>
                THEN remap_s(category_map, pixel_count)
                ELSE EmptyDict
        named == {n \in Range(stats) : n # "nodata"}
    IN  [s |-> [k \in (DOMAIN base) \cup named |->
                  IF k \in named THEN stat_value(k, v, pixel_count) ELSE base[k]],
         hist |-> IF ~categorical THEN [k \in {} |-> 0]
                  ELSE IF category_map # <<>> THEN remap_hist(category_map, pixel_count)
                  ELSE pixel_count,
         rout |-> <<>>]

\* The stats of a window with data.
window_stats(masked, stats, categorical, category_map) ==
    IF Len(compressed(masked)) = 0
    THEN empty_stats(stats)
    ELSE reduce_stats(masked, stats, categorical, category_map)

\* feature_stats['nodata']: the cells inside the geometry that hold the
\* no-data value.
nodata_count(src_array, rv_array, nodata_value) ==
    LET featmasked == [data |-> src_array,
                       mask |-> [r \in DOMAIN rv_array |->
                                   [c \in DOMAIN rv_array[r] |-> ~rv_array[r][c]]]]
        pixel_count == unique_counts(compressed(featmasked))
    IN  IF nodata_value # <<>> /\ nodata_value[1] \in DOMAIN pixel_count
        THEN pixel_count[nodata_value[1]]
        ELSE 0

with_nodata(fs, stats, src_array, rv_array, nodata_value) ==
    IF "nodata" \in Range(stats)
    THEN [fs EXCEPT !.s = Put(fs.s, "nodata",
                              IntVal(nodata_count(src_array, rv_array, nodata_value)))]
    ELSE fs

\* A user reducer, named by what it computes on the masked array.
stat_func(kind, masked) ==
    CASE kind = "count_masked" ->
           IntVal(Rows(masked.data) * Cols(masked.data) - Len(compressed(masked)))
      [] kind = "data_sum" ->
           IntVal(SeqSum(CompressedUpTo(masked.data,
                      [r \in DOMAIN masked.data |-> [c \in DOMAIN masked.data[r] |-> FALSE]],
                      Rows(masked.data) * Cols(masked.data))))

\* d[k] = e[k] for every key of e.
Update(d, e) == [x \in (DOMAIN d) \cup (DOMAIN e) |-> IF x \in DOMAIN e THEN e[x] ELSE d[x]]

with_add_stats(fs, add_stats, masked) ==
    IF add_stats = <<>> THEN fs
    ELSE [fs EXCEPT !.s = Update(fs.s, [k \in DOMAIN add_stats[1] |->
                                           stat_func(add_stats[1][k], masked)])]

\* masked.data[masked.mask] = nodata_value
fill(masked, nodata_value) ==
    [r \in DOMAIN masked.data |->
        [c \in DOMAIN masked.data[r] |->
            IF masked.mask[r][c] THEN nodata_value[1] ELSE masked.data[r][c]]]

\* Mutant of feature_fid: the declared id is ignored.
feature_fid_enumerated(feat, i) == i

\* feature_stats['__fid__']
feature_fid(feat, i) == IF feat.fid # <<>> THEN feat.fid[1] ELSE i

with_fid(fs, feat, i) == [fs EXCEPT !.s = Put(fs.s, "__fid__", IntVal(feature_fid(feat, i)))]

with_properties(fs, feat, copy_properties) ==
    IF feat.properties # <<>> /\ copy_properties
    THEN [fs EXCEPT !.s = Update(fs.s, feat.properties[1])]
    ELSE fs

-----------------------------------------------------------------------------
(* Inputs *)

GTSquare == <<10, 2, 0, 20, 0, -2>>
GTWide == <<10, 4, 0, 20, 0, -2>>

Grid3 == << <<1, 1, 2>>, <<1, 2, 2>>, <<3, 3, 3>> >>
Grid3z == << <<0, 1, 2>>, <<1, 0, 2>>, <<3, 3, 0>> >>
Grid23 == << <<0, 4, 4>>, <<7, 0, 4>> >>

\* A GDAL raster file: its cells, its georeferencing, its no-data metadata.
GdalSources ==
    { [rtype |-> "gdal", data |-> Grid3, gt |-> GTSquare, nodata |-> <<>>],
      [rtype |-> "gdal", data |-> Grid23, gt |-> GTWide, nodata |-> <<7>>] }

\* An ndarray passed by the caller: it carries neither.
ArraySources ==
    { [rtype |-> "ndarray", data |-> Grid3z, gt |-> <<>>, nodata |-> <<>>] }

StatRequests ==
    { <<>>,
      VALID_STATS \o <<"percentile_50", "percentile_25">>,
      <<"mean", "bogus">> }

AddStats == { <<>>, << ("n_masked" :> "count_masked") @@ ("raw_sum" :> "data_sum") >> }

CategoryMap == (1 :> "low") @@ (2 :> "mid") @@ (3 :> "high")

\* <<categorical, category_map>>
Categorical == { <<FALSE, <<>> >>, <<TRUE, <<CategoryMap>> >> }

Polygon(b) == [type |-> "Polygon", parts |-> <<b>>]
Point(x, y) == [type |-> "Point", parts |-> << <<x, y, x, y>> >>]
MultiPoint(pts) == [type |-> "MultiPoint", parts |-> pts]

\* A feature: its geometry, and its optional 'fid' and 'properties' keys.
\* The small polygon lies off the 3-column rasters of 2-wide pixels, and on the
\* raster of 4-wide pixels without holding the centre of any cell.
FeaturePool ==
    { [geometry |-> Polygon(<<10, 14, 22, 20>>), fid |-> <<7>>,
       properties |-> << ("name" :> IntVal(1)) @@ ("count" :> IntVal(-5)) >>],
      [geometry |-> Polygon(<<18, 18, 19, 19>>), fid |-> <<>>, properties |-> <<>>],
      [geometry |-> Point(11, 19), fid |-> <<>>,
       properties |-> << ("__fid__" :> IntVal(99)) >>],
      [geometry |-> MultiPoint(<< <<11, 19, 11, 19>>, <<13, 17, 13, 17>> >>), fid |-> <<3>>,
       properties |-> <<>>] }

NoGeom == [type |-> "none", parts |-> <<>>]

-----------------------------------------------------------------------------
(* State *)

VARIABLES
    raster,             \* the raster source: a file, or the caller's array
    raster0,            \* the cells of the raster source when the run started
    stats, categorical, category_map, copy_properties, all_touched,
    transform, add_stats, raster_out, nodata_value, global_src_extent,
    run_count, rtype, rgt, rshape,
    features_iter,      \* "none", then "open" once read_features has run
    vectors,            \* the features the iterator has yielded so far
    global_src_offset, global_src_array,
    i, results,
    geom, src_offset, src_array, rv_array,   \* locals of the last iteration
    raster_opens,       \* the rasterio.open calls made so far
    pc, error

config == <<categorical, category_map, copy_properties, all_touched, transform,
            add_stats, raster_out, raster0>>
info == <<rtype, rgt, rshape, nodata_value, global_src_extent>>
locals == <<geom, src_offset, src_array, rv_array>>
loopvars == <<vectors, i, results>>
globalsrc == <<global_src_offset, global_src_array>>

vars == <<raster, stats, run_count, config, info, features_iter, loopvars,
          globalsrc, locals, raster_opens, pc, error>>

Init ==
    /\ raster \in GdalSources \cup ArraySources
    /\ raster0 = raster.data
    /\ stats \in StatRequests
    /\ \E cat \in Categorical : categorical = cat[1] /\ category_map = cat[2]
    /\ copy_properties \in BOOLEAN
    /\ all_touched \in BOOLEAN
    /\ transform \in IF raster.rtype = "ndarray" THEN {<<>>, GTSquare} ELSE {<<>>}
    /\ add_stats \in AddStats
    /\ raster_out \in BOOLEAN
    /\ nodata_value \in {<<>>, <<0>>}
    /\ global_src_extent \in BOOLEAN
    /\ run_count = FALSE
    /\ rtype = "unknown" /\ rgt = <<>> /\ rshape = <<>>
    /\ features_iter = "none"
    /\ vectors = <<>>
    /\ global_src_offset = <<>> /\ global_src_array = <<>>
    /\ i = 0 /\ results = <<>>
    /\ geom = NoGeom /\ src_offset = <<0, 0, 0, 0>> /\ src_array = <<>> /\ rv_array = <<>>
    /\ raster_opens = 0
    /\ pc = "check_stats" /\ error = "none"

-----------------------------------------------------------------------------
(* zonal_stats, step by step *)

\* Mutant of ValidateStats: the raster is opened before the names are checked.
ValidateStatsAfterOpen ==
    /\ pc = "check_stats"
    /\ raster_opens' = raster_opens + 1
    /\ LET cs == check_stats(stats, categorical)
       IN  IF cs.ok
           THEN /\ stats' = cs.stats /\ run_count' = cs.run_count
                /\ pc' = "raster_info" /\ error' = error
           ELSE /\ pc' = "raised" /\ error' = "ValueError"
                /\ UNCHANGED <<stats, run_count>>
    /\ UNCHANGED <<raster, config, info, features_iter, loopvars, globalsrc, locals>>

\* stats, run_count = check_stats(stats, categorical)
ValidateStats ==
    /\ pc = "check_stats"
    /\ LET cs == check_stats(stats, categorical)
       IN  IF cs.ok
           THEN /\ stats' = cs.stats /\ run_count' = cs.run_count
                /\ pc' = "raster_info" /\ error' = error
           ELSE /\ pc' = "raised" /\ error' = "ValueError"
                /\ UNCHANGED <<stats, run_count>>
    /\ UNCHANGED <<raster, config, info, features_iter, loopvars, globalsrc, locals,
                   raster_opens>>

\* raster_info(raster, global_src_extent, nodata_value, affine, transform):
\* an ndarray needs the transform kwarg, takes no nodata_value, and is its own
\* global array; a file is opened for its georeferencing and no-data metadata,
\* which the nodata_value kwarg overrides.
raster_info(r, gse, nodata, tf) ==
    IF r.rtype = "ndarray"
    THEN [ok |-> tf # <<>> /\ nodata = <<>>,
          error |-> IF tf = <<>> THEN "RasterStatsError" ELSE "NotImplementedError",
          rtype |-> "ndarray", rgt |-> tf, rshape |-> <<Rows(r.data), Cols(r.data)>>,
          global_src_extent |-> TRUE, nodata_value |-> nodata, opens |-> 0]
    ELSE [ok |-> TRUE, error |-> "none",
          rtype |-> "gdal", rgt |-> r.gt, rshape |-> <<Rows(r.data), Cols(r.data)>>,
          global_src_extent |-> gse,
          nodata_value |-> IF nodata # <<>> THEN nodata ELSE r.nodata, opens |-> 1]

RasterInfo ==
    /\ pc = "raster_info"
    /\ LET ri == raster_info(raster, global_src_extent, nodata_value, transform)
       IN  /\ raster_opens' = raster_opens + ri.opens
           /\ IF ri.ok
              THEN /\ rtype' = ri.rtype /\ rgt' = ri.rgt /\ rshape' = ri.rshape
                   /\ global_src_extent' = ri.global_src_extent
                   /\ nodata_value' = ri.nodata_value
                   /\ pc' = "read_features" /\ error' = error
              ELSE /\ pc' = "raised" /\ error' = ri.error
                   /\ UNCHANGED info
    /\ UNCHANGED <<raster, stats, run_count, config, features_iter, loopvars, globalsrc,
                   locals>>

\* features_iter = read_features(vectors, layer)
ReadFeatures ==
    /\ pc = "read_features"
    /\ features_iter' = "open"
    /\ pc' = "global_src"
    /\ UNCHANGED <<raster, stats, run_count, config, info, loopvars, globalsrc, locals,
                   raster_opens, error>>

\* The in-memory array of the whole raster, when the global extent is used.
GlobalSource ==
    /\ pc = "global_src"
    /\ IF global_src_extent /\ rtype = "gdal"
       THEN LET extent == raster_extent_as_bounds(rgt, rshape)
                offset == bbox_to_pixel_offsets(rgt, extent, rshape)
            IN  /\ global_src_offset' = offset
                /\ global_src_array' = read(raster.data, pixel_offsets_to_window(offset))
                /\ raster_opens' = raster_opens + 1
       ELSE IF global_src_extent /\ rtype = "ndarray"
       THEN /\ global_src_offset' = <<0, 0, Rows(raster.data), Cols(raster.data)>>
            /\ global_src_array' = raster.data
            /\ raster_opens' = raster_opens
       ELSE UNCHANGED <<globalsrc, raster_opens>>
    /\ pc' = "loop"
    /\ UNCHANGED <<raster, stats, run_count, config, info, features_iter, loopvars, locals,
                   error>>

\* arr[ya:ya+h, xa:xa+w] = sub, written through a view of arr.
WriteSlice(arr, ya, xa, sub) ==
    [r \in DOMAIN arr |->
        [c \in DOMAIN arr[r] |->
            IF (r - ya) \in DOMAIN sub /\ (c - xa) \in DOMAIN sub[r - ya]
            THEN sub[r - ya][c - xa]
            ELSE arr[r][c]]]

\* The array the raster-out fill writes to: masked.data is a view of
\* src_array, which under the global extent is a view of global_src_array.
fill_target(gse) == IF gse THEN "global_src_array" ELSE "src_array"

\* The three mini_raster* keys. mini_raster is the masked array itself: a
\* view <<ya, yb, xa, xb>> of global_src_array, or an array of its own.
raster_out_keys(masked, view, new_gt, nodata) ==
    [mini_raster |-> [view |-> view,
                      data |-> IF view = <<>> THEN fill(masked, nodata) ELSE <<>>,
                      mask |-> masked.mask],
     mini_raster_GT |-> new_gt,
     mini_raster_NDV |-> nodata]

\* The geometry of a feature after the Point/MultiPoint conversion.
geom_of(feat) == normalize(feat.geometry, rgt)

\* src_offset: the pixel window of the feature.
offset_of(feat) == bbox_to_pixel_offsets(rgt, bounds(geom_of(feat)), rshape)

\* rv_array: the rasterized geometry.
mask_of(feat) ==
    rasterize_geom(geom_of(feat), offset_of(feat), new_gt_of(rgt, offset_of(feat)),
                   all_touched)

\* feature_stats of a window with data, before the raster-out keys.
computed_stats(src, rv) ==
    LET masked == masked_array(src, nodata_value, rv)
    IN  with_add_stats(
            with_nodata(window_stats(masked, stats, categorical, category_map),
                        stats, src, rv, nodata_value),
            add_stats, masked)

\* One iteration of `for i, feat in enumerate(features_iter)`.
ProcessFeature ==
    /\ pc = "loop"
    /\ i < MaxFeatures
    /\ \E feat \in FeaturePool :
        LET off == offset_of(feat)
            new_gt == new_gt_of(rgt, off)
            xa == off[1] - global_src_offset[1]
            ya == off[2] - global_src_offset[2]
            xb == xa + off[3]
            yb == ya + off[4]
            src == IF ~global_src_extent
                   THEN read(raster.data, pixel_offsets_to_window(off))
                   ELSE Slice(global_src_array, ya, yb, xa, xb)
            rv == mask_of(feat)
            masked == masked_array(src, nodata_value, rv)
            view == IF fill_target(global_src_extent) = "global_src_array"
                    THEN <<ya, yb, xa, xb>> ELSE <<>>
            feature_stats ==
                IF off_raster(off) THEN off_raster_stats(stats)
                ELSE IF raster_out
                THEN [computed_stats(src, rv) EXCEPT
                        !.rout = << raster_out_keys(masked, view, new_gt, nodata_value) >>]
                ELSE computed_stats(src, rv)
            finished == with_properties(with_fid(feature_stats, feat, i),
                                        feat, copy_properties)
        IN  /\ vectors' = Append(vectors, feat)
            /\ geom' = geom_of(feat)
            /\ src_offset' = off
            /\ IF off_raster(off)
               THEN /\ UNCHANGED <<src_array, rv_array, raster, globalsrc, raster_opens>>
                    /\ results' = Append(results, finished)
                    /\ i' = i + 1
                    /\ UNCHANGED <<pc, error>>
               ELSE /\ src_array' = src
                    /\ rv_array' = rv
                    /\ raster_opens' = IF global_src_extent THEN raster_opens
                                       ELSE raster_opens + 1
                    /\ IF <<Rows(rv), Cols(rv)>> # <<Rows(src), Cols(src)>>
                       THEN /\ pc' = "raised" /\ error' = "AssertionError"
                            /\ UNCHANGED <<raster, globalsrc, results, i>>
                       ELSE IF raster_out /\ nodata_value = <<>>
                       THEN \* None cannot be stored in an integer array
                            /\ pc' = "raised" /\ error' = "TypeError"
                            /\ UNCHANGED <<raster, globalsrc, results, i>>
                       ELSE /\ IF raster_out /\ view # <<>>
                               THEN LET written == WriteSlice(global_src_array, ya, xa,
                                                              fill(masked, nodata_value))
                                    IN  /\ global_src_array' = written
                                        /\ raster' = IF rtype = "ndarray"
                                                     THEN [raster EXCEPT !.data = written]
                                                     ELSE raster
                               ELSE UNCHANGED <<raster, global_src_array>>
                            /\ UNCHANGED global_src_offset
                            /\ results' = Append(results, finished)
                            /\ i' = i + 1
                            /\ UNCHANGED <<pc, error>>
    /\ UNCHANGED <<stats, run_count, config, info, features_iter>>

\* The iterator is exhausted: return results.
Return ==
    /\ pc = "loop"
    /\ pc' = "done"
    /\ UNCHANGED <<raster, stats, run_count, config, info, features_iter, loopvars,
                   globalsrc, locals, raster_opens, error>>

Next == ValidateStats \/ RasterInfo \/ ReadFeatures \/ GlobalSource \/ ProcessFeature \/ Return

Spec == Init /\ [][Next]_vars

-----------------------------------------------------------------------------
(* Properties *)

Processed == 1..Len(results)

\* The property keys copied over the stats of a feature.
copied_keys(feat) ==
    IF feat.properties # <<>> /\ copy_properties THEN DOMAIN feat.properties[1] ELSE {}

\* The cells of the raster, as they were when the run started, in the window
\* of a feature.
true_src(feat) == read(raster0, pixel_offsets_to_window(offset_of(feat)))

\* The cells of the window of a feature that lie inside its geometry.
inclusion_cells(feat) ==
    LET off == offset_of(feat)
        rv == mask_of(feat)
    IN  {rc \in (1..off[4]) \X (1..off[3]) : rv[rc[1]][rc[2]]}

\* Those of them that hold the no-data value in the raster.
nodata_cells(feat) ==
    LET src == true_src(feat)
    IN  {rc \in inclusion_cells(feat) : is_nodata(src[rc[1]][rc[2]], nodata_value)}

\* The window of the feature has cells, and none survives the mask.
no_survivor(feat) ==
    /\ ~off_raster(offset_of(feat))
    /\ LET src == true_src(feat)
       IN  \A rc \in inclusion_cells(feat) : is_nodata(src[rc[1]][rc[2]], nodata_value)

\* The id of the k-th feature: its declared id, else its 0-based position.
declared_or_position(k) ==
    IntVal(IF vectors[k].fid # <<>> THEN vectors[k].fid[1] ELSE k - 1)

\* C1 as amended: when the run returns, there is one result per input
\* feature, in input order, and the k-th __fid__ is the k-th feature's declared
\* id, else its 0-based position, unless a copied property named __fid__
\* has overwritten it with its own value.
C1_LengthAndFidUnlessCopied ==
    pc = "done" =>
        /\ Len(results) = Len(vectors)
        /\ \A k \in Processed :
              results[k].s["__fid__"] =
                  IF "__fid__" \in copied_keys(vectors[k])
                  THEN vectors[k].properties[1]["__fid__"]
                  ELSE declared_or_position(k)

C1_Witness ==
    /\ pc = "done" /\ copy_properties
    /\ \E j, l \in Processed :
          /\ j > 1 /\ vectors[j].fid = <<>> /\ "__fid__" \notin copied_keys(vectors[j])
          /\ "__fid__" \in copied_keys(vectors[l])

\* C1 as stated: when the run returns, there is one result per input feature,
\* in input order, and the k-th __fid__ is the k-th feature's declared id, else
\* its 0-based position, whatever the copied property keys.
C1_LengthAndFid ==
    pc = "done" =>
        /\ Len(results) = Len(vectors)
        /\ \A k \in Processed : results[k].s["__fid__"] = declared_or_position(k)

\* C2: a feature off the raster has every requested stat None, except count,
\* which is 0 (keys overwritten by a copied property aside).
C2_OffRasterCountZero ==
    \A k \in Processed :
        off_raster(offset_of(vectors[k])) =>
            \A n \in Range(stats) \ copied_keys(vectors[k]) :
                /\ n \in DOMAIN results[k].s
                /\ results[k].s[n] = IF n = "count" THEN IntVal(0) ELSE NoneVal

\* C3: the sub-array the last feature was masked with is the array a fresh
\* read of its own window returns, under either extent strategy.
C3_GlobalEqualsLocal ==
    (Len(vectors) > 0 /\ ~off_raster(src_offset)) =>
        src_array = read(raster.data, pixel_offsets_to_window(src_offset))

\* C4: every cell of the shared raster data holds the value it had when the
\* run started.
C4_SharedRasterUnchanged ==
    /\ raster.data = raster0
    /\ global_src_array # <<>> => global_src_array = raster0

\* C5 as stated: with a non-empty window and no surviving cell, every
\* requested stat is None, nodata included, except count, which is 0.
C5_AllNoneExceptCount ==
    \A k \in Processed :
        no_survivor(vectors[k]) =>
            \A n \in Range(stats) \ copied_keys(vectors[k]) :
                results[k].s[n] = IF n = "count" THEN IntVal(0) ELSE NoneVal

\* C5 as amended: with a non-empty window and no surviving cell, every
\* requested stat other than count and nodata is None, count is 0, and nodata
\* is the number of cells inside the geometry (all of them hold the no-data
\* value); keys overwritten by a copied property aside.
C5_NoneExceptCountAndNodata ==
    \A k \in Processed :
        no_survivor(vectors[k]) =>
            \A n \in Range(stats) \ copied_keys(vectors[k]) :
                results[k].s[n] =
                    IF n = "count" THEN IntVal(0)
                    ELSE IF n = "nodata"
                    THEN IntVal(Cardinality(inclusion_cells(vectors[k])))
                    ELSE NoneVal

C5_Witness ==
    \E k \in Processed :
        /\ no_survivor(vectors[k])
        /\ {"count", "nodata", "mean"} \subseteq Range(stats) \ copied_keys(vectors[k])
        /\ results[k].s["nodata"].num >= 1

\* part is the square of the given side centred on the point pt.
is_square(part, pt, side) ==
    /\ part[3] - part[1] = side /\ part[4] - part[2] = side
    /\ part[1] + part[3] = 2 * pt[1] /\ part[2] + part[4] = 2 * pt[2]

\* geom, the geometry the window of the last feature was computed from, is
\* that feature's geometry with every point turned into a square of this side.
normalized_to(side) ==
    LET given == vectors[Len(vectors)].geometry
    IN  IF given.type = "Point"
        THEN /\ geom.type = "Polygon" /\ Len(geom.parts) = 1
             /\ is_square(geom.parts[1], given.parts[1], side)
        ELSE IF given.type = "MultiPoint"
        THEN /\ geom.type = "MultiPolygon" /\ Len(geom.parts) = Len(given.parts)
             /\ \A k \in DOMAIN given.parts :
                   is_square(geom.parts[k], given.parts[k], side)
        ELSE geom = given

\* C6 as stated: a point becomes a square whose side is |pixelHeight|.
C6_SquareOfPixelHeight == Len(vectors) > 0 => normalized_to(Abs(rgt[6]))

\* C6 as amended: a Point becomes the axis-aligned square centred on it whose
\* side is pixelWidth, a MultiPoint one such square per point, and every other
\* geometry is unchanged.
C6_SquareOfPixelWidth == Len(vectors) > 0 => normalized_to(rgt[2])

C6_Witness ==
    /\ Len(vectors) > 0
    /\ vectors[Len(vectors)].geometry.type = "Point"
    /\ rgt[2] # Abs(rgt[6])
    /\ Len(results) = Len(vectors)

\* C7: a run whose request holds an unknown stat name ends in check_stats
\* with nothing opened, read or processed; and no raster or vector access
\* precedes the validation in any run.
C7_ValidationFirst ==
    /\ ~check_stats(stats, categorical).ok =>
          /\ pc \in {"check_stats", "raised"}
          /\ pc = "raised" => error = "ValueError"
          /\ raster_opens = 0 /\ global_src_array = <<>>
          /\ features_iter = "none" /\ vectors = <<>> /\ results = <<>>
    /\ pc = "check_stats" =>
          /\ raster_opens = 0 /\ global_src_array = <<>>
          /\ features_iter = "none" /\ vectors = <<>>

C7_Witness == pc = "raised" /\ error = "ValueError" /\ ~check_stats(stats, categorical).ok

\* The result of a feature processed first, on the raster as it was when the
\* run started, given position idx.
alone(feat, idx) ==
    with_properties(
        with_fid(IF off_raster(offset_of(feat)) THEN off_raster_stats(stats)
                 ELSE computed_stats(true_src(feat), mask_of(feat)),
                 feat, idx),
        feat, copy_properties)

\* C8: the stats reported for a feature are those it gets when processed
\* alone, whatever was processed before it.
C8_IndependentOfEarlierFeatures ==
    \A k \in Processed :
        /\ results[k].s = alone(vectors[k], k - 1).s
        /\ results[k].hist = alone(vectors[k], k - 1).hist

\* C9: every result has a key for every requested stat and every additional
\* reducer.
C9_SameKeySet ==
    \A k \in Processed :
        (Range(stats) \cup (IF add_stats = <<>> THEN {} ELSE DOMAIN add_stats[1]))
            \subseteq DOMAIN results[k].s

\* C10: with a non-empty window, nodata is the number of cells inside the
\* geometry that hold the no-data value and count the number that do not
\* (keys overwritten by a copied property aside).
C10_NodataAndCount ==
    \A k \in Processed :
        (/\ ~off_raster(offset_of(vectors[k]))
         /\ {"nodata", "count"} \subseteq Range(stats) \ copied_keys(vectors[k])) =>
            /\ results[k].s["nodata"] = IntVal(Cardinality(nodata_cells(vectors[k])))
            /\ results[k].s["count"] =
                  IntVal(Cardinality(inclusion_cells(vectors[k]) \ nodata_cells(vectors[k])))

====
